---- MODULE Spec2Model ----
(***************************************************************************)
(* Simple Ludo (console), src/ludo_console.py: one token per player, a 6   *)
(* is needed to leave base, the track is 57 long, a 6 gives an extra turn. *)
(*                                                                         *)
(* The specifications share the variables:                                 *)
(*   Spec       the game loop of main(): one action from the top of the    *)
(*              loop to the prompt, one from the prompt to the next top;   *)
(*   SpecApply  a caller that invokes apply_move on any player with any    *)
(*              roll, in any order (the function's contract);              *)
(*   SpecFn     a caller that invokes the pure predicates can_enter and    *)
(*              move_possible on arguments drawn from bounded sets;        *)
(*   SpecSetup  setup_players() on any text typed at its prompt;           *)
(*   SpecEveryone  everyone_finished on player lists of 2 to 4 players;    *)
(*   SpecLoop   the game loop entered on such a list instead of a new one; *)
(*   SpecFair   the game loop with fair dice and a user who never quits.   *)
(***************************************************************************)
EXTENDS Integers, FiniteSets, Sequences, TLC

VARIABLES
    players,          \* index -> [pos, finished]: the list `players` of Player objects
    turn,             \* main(): index of the player whose turn it is
    winner_declared,  \* main(): set when a move finishes a player
    pc,               \* "setup", then main(): "top" of the loop, "prompt", "exited" (q), "done"
    roll,             \* the roll shown with the board / handed to apply_move
    current,          \* index of the player the board marks / apply_move acts on
    old,              \* pos of `current` before the roll or call
    oldFinished,      \* finished of `current` before the roll or call
    call,             \* the last call of a pure predicate and its result
    raw               \* setup_players(): what was typed at the player-count prompt

vars == <<players, turn, winner_declared, pc, roll, current, old, oldFinished, call, raw>>

(* ---------------- program constants ---------------- *)

TRACK_LEN == 57

MinPlayers == 2

DefaultPlayers == 2

DieFaces == 6

\* setup_players: the largest player count accepted
PlayerLimit == 4

(* ---------------- bounds ---------------- *)

\* largest player count explored by the game loop (the code admits up to 4)
MaxPlayers == 2

\* the numbers typed at the player-count prompt range over -MaxRequested..MaxRequested
MaxRequested == 50

\* player lists handed in from outside have their tokens on the last
\* StretchLen squares of the track or home
StretchLen == 3

(* ---------------- values ---------------- *)

Rolls == 1..DieFaces

\* the positions a caller may hand to the pure predicates
Positions == (0 - 1)..TRACK_LEN

\* no roll: the local `roll` of main() before the first roll, and the
\* roll=None of the board printed before the prompt
NoRoll == 0

\* the local `current` of main() before the first iteration
NoPlayer == 0 - 1

\* what can be typed at the player-count prompt: nothing, something that is
\* not a number, or a number
NoInput == [kind |-> "none", value |-> 0]

Inputs ==
    {[kind |-> "empty", value |-> 0], [kind |-> "text", value |-> 0]}
        \cup {[kind |-> "int", value |-> v] : v \in (0 - MaxRequested)..MaxRequested}

NoCall == [fn |-> "none", pos |-> 0, roll |-> 0, result |-> FALSE]

\* Player.__init__: in base, not finished
NewPlayer == [pos |-> 0 - 1, finished |-> FALSE]

NumPlayers == Cardinality(DOMAIN players)

(* ---------------- pure functions ---------------- *)

can_enter_any(r, p) == p < 0

can_enter(r, p) == p < 0 /\ r = 6

move_possible_strict(p, r) == IF p < 0 THEN FALSE ELSE (p + r) < TRACK_LEN

move_possible_nolimit(p, r) == IF p < 0 THEN FALSE ELSE TRUE

move_possible(p, r) == IF p < 0 THEN FALSE ELSE (p + r) <= TRACK_LEN

\* a variant that bounces back from the end of the track instead of forfeiting
apply_move_bounce(player, r) ==
    IF can_enter(r, player.pos) THEN [player EXCEPT !.pos = 0]
    ELSE IF player.pos < 0 THEN player
    ELSE LET np == IF player.pos + r <= TRACK_LEN THEN player.pos + r
                   ELSE 2 * TRACK_LEN - (player.pos + r)
         IN  [pos |-> np, finished |-> (np = TRACK_LEN)]

\* a variant that declares the token home one square early
apply_move_early(player, r) ==
    IF player.finished THEN player
    ELSE IF can_enter(r, player.pos) THEN [player EXCEPT !.pos = 0]
    ELSE IF move_possible(player.pos, r)
         THEN LET np == player.pos + r
              IN  [pos |-> np,
                   finished |-> IF np = TRACK_LEN - 1 THEN TRUE ELSE player.finished]
         ELSE player

\* a variant in which the entering 6 is also moved
apply_move_enter_moves(player, r) ==
    IF player.finished THEN player
    ELSE IF can_enter(r, player.pos) THEN [player EXCEPT !.pos = r]
    ELSE IF move_possible(player.pos, r)
         THEN LET np == player.pos + r
              IN  [pos |-> np,
                   finished |-> IF np = TRACK_LEN THEN TRUE ELSE player.finished]
         ELSE player

apply_move(player, r) ==
    IF player.finished THEN player
    ELSE IF can_enter(r, player.pos) THEN [player EXCEPT !.pos = 0]
    ELSE IF move_possible(player.pos, r)
         THEN LET np == player.pos + r
              IN  [pos |-> np,
                   finished |-> IF np = TRACK_LEN THEN TRUE ELSE player.finished]
         ELSE player

everyone_finished_any(ps) == \E i \in DOMAIN ps : ps[i].finished

everyone_finished(ps) == \A i \in DOMAIN ps : ps[i].finished

next_index_nowrap(c, n) == c + 1

next_index(c, n) == (c + 1) % n

(* ---------------- the game loop, main() ---------------- *)

\* a variant that trusts the number typed
player_count_unchecked(input) ==
    IF input.kind = "int" THEN input.value ELSE DefaultPlayers

\* setup_players: the player count n from the text typed; an empty line, a
\* text that is not a number and a number outside 2..4 all give 2
player_count(input) ==
    IF input.kind = "empty" THEN DefaultPlayers
    ELSE IF input.kind = "text" THEN DefaultPlayers
    ELSE IF input.value < MinPlayers \/ input.value > PlayerLimit THEN DefaultPlayers
    ELSE input.value

\* setup_players: n players, each a new Player; then turn = 0
setup_players(n) == [i \in 0..(n - 1) |-> NewPlayer]

Init ==
    /\ \E n \in MinPlayers..MaxPlayers : players = setup_players(n)
    /\ turn = 0
    /\ winner_declared = FALSE
    /\ pc = "top"
    /\ roll = NoRoll
    /\ current = NoPlayer
    /\ old = 0 - 1
    /\ oldFinished = FALSE
    /\ call = NoCall
    /\ raw = NoInput

\* a variant whose on-track guard refuses the exact landing on TRACK_LEN
decide_move_strict(player, r) ==
    IF player.pos < 0
    THEN IF can_enter(r, player.pos) THEN apply_move(player, r) ELSE player
    ELSE IF player.pos + r < TRACK_LEN THEN apply_move(player, r) ELSE player

\* the "Decide move" block: apply_move is called only when the move is legal
decide_move(player, r) ==
    IF player.pos < 0
    THEN IF can_enter(r, player.pos) THEN apply_move(player, r) ELSE player
    ELSE IF move_possible(player.pos, r) THEN apply_move(player, r) ELSE player

\* a variant that never declares the winner
declare_winner_never(wd, before, r, after) == wd

\* winner_declared after the "Decide move" block
declare_winner(wd, before, r, after) ==
    IF before.pos >= 0 /\ move_possible(before.pos, r) /\ after.finished
    THEN TRUE ELSE wd

extra_turn_always(wd, r, fin) == r = 6

extra_turn_never(wd, r, fin) == FALSE

\* "Extra turn on 6 if not finished"
extra_turn(wd, r, fin) == ~wd /\ r = 6 /\ ~fin

\* a variant of the skip that forgets to advance the turn
SkipFinished_stay ==
    UNCHANGED <<players, turn, winner_declared, pc, roll, old, oldFinished>>

\* the top of the loop body when the current player is finished: skip, no
\* board, no prompt, no roll
SkipFinished ==
    /\ turn' = next_index(turn, NumPlayers)
    /\ UNCHANGED <<players, winner_declared, pc, roll, old, oldFinished>>

\* the top of the loop body otherwise: the board is printed for the current
\* player with no last roll, and the program waits at the prompt
ShowBoardAndPrompt ==
    /\ roll' = NoRoll
    /\ old' = players[turn].pos
    /\ oldFinished' = players[turn].finished
    /\ pc' = "prompt"
    /\ UNCHANGED <<players, turn, winner_declared>>

\* the loop body from `while True` to the prompt
BeginTurn ==
    /\ pc = "top"
    /\ current' = turn
    /\ IF players[turn].finished THEN SkipFinished ELSE ShowBoardAndPrompt
    /\ UNCHANGED <<call, raw>>

\* the user types q at the prompt
Quit ==
    /\ pc = "prompt"
    /\ pc' = "exited"
    /\ UNCHANGED <<players, turn, winner_declared, roll, current, old, oldFinished, call, raw>>

\* a variant that moves the token of the next player
TakeTurn_moves_next(r) ==
    /\ pc = "prompt"
    /\ roll' = r
    /\ LET nxt   == next_index(turn, NumPlayers)
           after == decide_move(players[nxt], r)
           wd    == declare_winner(winner_declared, players[nxt], r, after)
       IN  /\ players' = [players EXCEPT ![nxt] = after]
           /\ winner_declared' = wd
           /\ IF extra_turn(wd, r, after.finished)
              THEN pc' = "top" /\ UNCHANGED turn
              ELSE IF wd \/ everyone_finished(players')
                   THEN pc' = "done" /\ UNCHANGED turn
                   ELSE pc' = "top" /\ turn' = nxt
    /\ UNCHANGED <<current, old, oldFinished, call, raw>>

\* the user presses ENTER at the prompt and the dice show r: the board is
\* printed with the roll, the move is decided, then extra turn, end of game
\* or next player's turn
TakeTurn(r) ==
    /\ pc = "prompt"
    /\ roll' = r
    /\ LET after == decide_move(players[turn], r)
           wd    == declare_winner(winner_declared, players[turn], r, after)
       IN  /\ players' = [players EXCEPT ![turn] = after]
           /\ winner_declared' = wd
           /\ IF extra_turn(wd, r, after.finished)
              THEN pc' = "top" /\ UNCHANGED turn
              ELSE IF wd \/ everyone_finished(players')
                   THEN pc' = "done" /\ UNCHANGED turn
                   ELSE pc' = "top" /\ turn' = next_index(turn, NumPlayers)
    /\ UNCHANGED <<current, old, oldFinished, call, raw>>

\* the status printed for a player in the final standings
status(player) ==
    IF player.finished THEN [tag |-> "WINNER", n |-> 0]
    ELSE IF player.pos >= 0 THEN [tag |-> "POS", n |-> player.pos]
    ELSE [tag |-> "BASE", n |-> 0]

\* "Final standings:", one line per player in list order
final_standings(ps) == [i \in DOMAIN ps |-> status(ps[i])]

Next ==
    \/ BeginTurn
    \/ Quit
    \/ \E r \in Rolls : TakeTurn(r)

Spec == Init /\ [][Next]_vars

\* a roll that changes the state of the player whose turn it is
Advance == \E r \in Rolls : TakeTurn(r) /\ players' # players

\* the loop when the user never types q
NextPlay ==
    \/ BeginTurn
    \/ \E r \in Rolls : TakeTurn(r)

\* the game set up with the default answer at the player-count prompt: two
\* new players, turn 0
InitFair ==
    /\ players = setup_players(player_count([kind |-> "empty", value |-> 0]))
    /\ turn = 0
    /\ winner_declared = FALSE
    /\ pc = "top"
    /\ roll = NoRoll
    /\ current = NoPlayer
    /\ old = 0 - 1
    /\ oldFinished = FALSE
    /\ call = NoCall
    /\ raw = NoInput

\* The game played to the end: the program reaches the prompt by itself, the
\* user always presses ENTER, and random.randint brings every roll value
\* again and again in every player state that recurs.  Of that only the
\* weakest consequence is assumed: a roll that changes the current player's
\* state, which is possible at every prompt, is not avoided forever.
SpecFair ==
    /\ InitFair
    /\ [][NextPlay]_vars
    /\ WF_vars(BeginTurn)
    /\ SF_vars(Advance)

(* ---------------- apply_move driven by an arbitrary caller ---------------- *)

InitApply ==
    /\ players = setup_players(DefaultPlayers)
    /\ turn = 0
    /\ winner_declared = FALSE
    /\ pc = "top"
    /\ roll = NoRoll
    /\ current = NoPlayer
    /\ old = 0 - 1
    /\ oldFinished = FALSE
    /\ call = NoCall
    /\ raw = NoInput

ApplyMoveCall(p, r) ==
    /\ current' = p
    /\ roll' = r
    /\ old' = players[p].pos
    /\ oldFinished' = players[p].finished
    /\ players' = [players EXCEPT ![p] = apply_move(players[p], r)]
    /\ UNCHANGED <<turn, winner_declared, pc, call, raw>>

NextApply == \E p \in DOMAIN players : \E r \in Rolls : ApplyMoveCall(p, r)

SpecApply == InitApply /\ [][NextApply]_vars

(* ---------------- the pure predicates on drawn arguments ---------------- *)

CallCanEnter(r, p) ==
    /\ call' = [fn |-> "can_enter", pos |-> p, roll |-> r, result |-> can_enter(r, p)]
    /\ UNCHANGED <<players, turn, winner_declared, pc, roll, current, old, oldFinished, raw>>

CallMovePossible(p, r) ==
    /\ call' = [fn |-> "move_possible", pos |-> p, roll |-> r,
                result |-> move_possible(p, r)]
    /\ UNCHANGED <<players, turn, winner_declared, pc, roll, current, old, oldFinished, raw>>

NextFn ==
    \/ \E r \in Rolls : \E p \in Positions : CallCanEnter(r, p)
    \/ \E p \in Positions : \E r \in Rolls : CallMovePossible(p, r)

SpecFn == InitApply /\ [][NextFn]_vars

(* ---------------- setup_players on any typed input ---------------- *)

InitSetup ==
    /\ players = setup_players(0)
    /\ turn = 0
    /\ winner_declared = FALSE
    /\ pc = "setup"
    /\ roll = NoRoll
    /\ current = NoPlayer
    /\ old = 0 - 1
    /\ oldFinished = FALSE
    /\ call = NoCall
    /\ raw = NoInput

\* main() up to the loop: players = setup_players(), turn = 0
SetupPlayers(input) ==
    /\ pc = "setup"
    /\ raw' = input
    /\ players' = setup_players(player_count(input))
    /\ turn' = 0
    /\ winner_declared' = FALSE
    /\ pc' = "top"
    /\ UNCHANGED <<roll, current, old, oldFinished, call>>

NextSetup == \E input \in Inputs : SetupPlayers(input)

SpecSetup == InitSetup /\ [][NextSetup]_vars

(* ---------------- player lists handed in from outside ---------------- *)

\* a Player as the code can leave it: home exactly when at TRACK_LEN
DrawnPlayers ==
    {[pos |-> p, finished |-> (p = TRACK_LEN)] : p \in (TRACK_LEN - StretchLen)..TRACK_LEN}

\* a list of 2 to 4 such players, with the turn at any of them
InitDrawn ==
    /\ \E n \in MinPlayers..PlayerLimit :
          /\ players \in [0..(n - 1) -> DrawnPlayers]
          /\ turn \in 0..(n - 1)
    /\ winner_declared = FALSE
    /\ pc = "top"
    /\ roll = NoRoll
    /\ current = NoPlayer
    /\ old = 0 - 1
    /\ oldFinished = FALSE
    /\ call = NoCall
    /\ raw = NoInput

CallEveryoneFinished ==
    /\ call.fn = "none"
    /\ call' = [fn |-> "everyone_finished", pos |-> 0, roll |-> 0,
                result |-> everyone_finished(players)]
    /\ UNCHANGED <<players, turn, winner_declared, pc, roll, current, old, oldFinished, raw>>

NextEveryone == CallEveryoneFinished

SpecEveryone == InitDrawn /\ [][NextEveryone]_vars

\* the loop of main() entered on a player list handed in from outside: the
\* only way to have a finished player at the top of the loop
SpecLoop == InitDrawn /\ [][Next]_vars

(* ---------------- properties ---------------- *)

\* the last call or roll acted on a player
Acted == current # NoPlayer /\ roll # NoRoll

\* C1: once a player's finished flag is true, no apply_move call with any
\* roll in 1..6 changes that player's pos or finished; finished never goes
\* from true back to false.
C1_FinishedIsPermanent ==
    [][\A p \in DOMAIN players :
          players[p].finished => players'[p] = players[p]]_vars

\* apply_move has been called on a player that was already finished
C1_Witness ==
    /\ Acted
    /\ oldFinished
    /\ players[current].finished
    /\ players[current].pos = old

\* C2: across every apply_move call with a roll in 1..6, starting from
\* pos = -1, a player's pos after the call is >= its pos before the call; a
\* player who has left base never returns to pos = -1.
C2_PositionNeverDecreases ==
    [][\A p \in DOMAIN players :
          /\ players'[p].pos >= players[p].pos
          /\ players[p].pos >= 0 => players'[p].pos # 0 - 1]_vars

\* an on-track player has been moved forward by apply_move
C2_Witness ==
    /\ Acted
    /\ old >= 0
    /\ players[current].pos = old + roll

\* C3: apply_move on an unfinished on-track player with pos + roll > 57
\* leaves pos and finished unchanged (no partial move, no bounce-back);
\* pos = 55 with roll 3 stays at 55.
C3_OvershootForfeits ==
    (Acted /\ ~oldFinished /\ old >= 0 /\ old + roll > TRACK_LEN)
        => (players[current].pos = old /\ ~players[current].finished)

\* apply_move was called at pos = 55 with roll 3 and the player is still at 55
C3_Witness ==
    /\ Acted
    /\ ~oldFinished
    /\ old = 55
    /\ roll = 3
    /\ players[current].pos = 55

\* C4: can_enter(roll, pos) is true iff pos < 0 and roll = 6, for every roll
\* in 1..6 and pos in -1..57; a player in base stays at pos = -1 after
\* apply_move with any roll other than 6, so a 6 is the only way out of base.
C4_EnterOnlyOnSix ==
    /\ \A r \in Rolls : \A p \in Positions :
          can_enter(r, p) <=> (p < 0 /\ r = 6)
    /\ (Acted /\ old < 0 /\ roll # 6) => players[current].pos = 0 - 1
    /\ (Acted /\ old < 0 /\ players[current].pos >= 0)
          => (roll = 6 /\ players[current].pos = 0)

\* apply_move was called on a base player with a roll other than 6, while
\* another player has already entered the track
C4_Witness ==
    /\ Acted
    /\ old = 0 - 1
    /\ roll \in 1..5
    /\ players[current].pos = 0 - 1
    /\ \E q \in DOMAIN players : players[q].pos >= 0

\* C5: move_possible(pos, roll) is true iff pos >= 0 and pos + roll <= 57,
\* for every pos in -1..57 and roll in 1..6; true for (52, 5), false for
\* (52, 6).
C5_MovePossible ==
    call.fn = "move_possible" =>
        /\ call.result <=> (call.pos >= 0 /\ call.pos + call.roll <= 57)
        /\ (call.pos = 52 /\ call.roll = 5) => call.result
        /\ (call.pos = 52 /\ call.roll = 6) => ~call.result

\* move_possible was called on (52, 5), the exact landing on 57
C5_Witness ==
    call = [fn |-> "move_possible", pos |-> 52, roll |-> 5, result |-> TRUE]

\* C6: in every reachable state and for every player, finished is true iff
\* pos = 57; apply_move sets finished exactly when an advance lands on 57.
C6_FinishedIffHome ==
    \A p \in DOMAIN players :
        players[p].finished <=> players[p].pos = TRACK_LEN

\* an advance has just landed a player on 57 while the other is on the track
C6_Witness ==
    /\ Acted
    /\ ~oldFinished
    /\ old + roll = TRACK_LEN
    /\ players[current].finished
    /\ \E q \in DOMAIN players :
          players[q].pos \in 0..(TRACK_LEN - 1) /\ ~players[q].finished

\* C7 as stated: in every reachable state every player's position is in
\* {-1, 0, ..., 56}, including for players that have finished.
C7_PositionBelowTrackLen ==
    \A p \in DOMAIN players : players[p].pos \in (0 - 1)..(TRACK_LEN - 1)

\* C7 amended: in every reachable state every unfinished player's position is
\* in {-1, 0, ..., 56}, and a finished player's position is 57.
C7_PositionRange ==
    \A p \in DOMAIN players :
        IF players[p].finished
        THEN players[p].pos = TRACK_LEN
        ELSE players[p].pos \in (0 - 1)..(TRACK_LEN - 1)

\* a player has just finished from square 56
C7_Witness ==
    /\ Acted
    /\ old = TRACK_LEN - 1
    /\ ~oldFinished
    /\ players[current].finished
    /\ players[current].pos = TRACK_LEN

\* C8: in every reachable state -1 <= pos <= 57 for every player, after any
\* sequence of apply_move calls with rolls in 1..6.
C8_PositionWithinTrack ==
    \A p \in DOMAIN players :
        (0 - 1) <= players[p].pos /\ players[p].pos <= TRACK_LEN

\* a player at 57 has been handed another roll, and one near the end was
\* refused an overshooting roll
C8_Witness ==
    /\ Acted
    /\ old + roll > TRACK_LEN
    /\ \E p \in DOMAIN players : players[p].pos = TRACK_LEN
    /\ \E q \in DOMAIN players : players[q].pos \in 52..56

\* C9: in the game loop, whenever the roll is 6 and the current player is not
\* finished after the move, the turn index is not advanced and the next roll
\* belongs to the same player: when the 6 entered the track, when it
\* advanced the token, and when it was blocked by overshoot (pos in 52..56).
C9_ExtraTurnOnSix ==
    /\ [](( Acted /\ roll = 6 /\ ~players[current].finished)
             => (turn = current /\ pc = "top"))
    /\ [][( Acted /\ roll = 6 /\ ~players[current].finished)
             => (turn' = current /\ current' = current /\ pc' = "prompt")]_vars

\* a 6 was blocked by overshoot and the same player is about to roll again
C9_Witness ==
    /\ Acted
    /\ roll = 6
    /\ old \in 52..56
    /\ players[current].pos = old
    /\ ~players[current].finished
    /\ turn = current
    /\ pc = "top"

\* C10: the game ends in the same step in which a player's finished flag
\* becomes true: no further roll is made and no player's state changes
\* afterwards, even when the finishing roll was a 6 (pos = 51, roll 6).
C10_GameEndsOnFinish ==
    /\ []((\E p \in DOMAIN players : players[p].finished)
             => (pc = "done" /\ winner_declared))
    /\ [][(\E p \in DOMAIN players : players[p].finished)
             => UNCHANGED <<players, roll, turn, pc>>]_vars

\* the game has ended on a 6 rolled at square 51
C10_Witness ==
    /\ Acted
    /\ old = 51
    /\ roll = 6
    /\ players[current].finished
    /\ pc = "done"

\* C11: after a roll other than 6 that does not finish the current player
\* (move applied or blocked), the turn index becomes (turn + 1) mod n for n
\* players, wrapping from n-1 to 0; the turn index is within 0..n-1 in every
\* reachable state.
C11_TurnAdvancesModN ==
    /\ turn \in 0..(NumPlayers - 1)
    /\ (Acted /\ roll # 6 /\ ~players[current].finished)
          => (pc = "top" /\ turn = (current + 1) % NumPlayers)
    /\ (Acted /\ roll # 6 /\ ~players[current].finished
              /\ current = NumPlayers - 1)
          => turn = 0

\* the last player's roll other than 6 was blocked by overshoot and the turn
\* wrapped to player 0
C11_Witness ==
    /\ Acted
    /\ roll \in 1..5
    /\ old + roll > TRACK_LEN
    /\ players[current].pos = old
    /\ current = NumPlayers - 1
    /\ turn = 0
    /\ pc = "top"

\* C12 as stated: a requested player count outside [2,4] at setup is a hard
\* failure (InvalidPlayerCount) surfaced to the caller and never recovered:
\* no game with players is constructed from an out-of-range count.
C12_InvalidCountIsHardFailure ==
    (pc # "setup" /\ raw.kind = "int"
          /\ (raw.value < MinPlayers \/ raw.value > PlayerLimit))
        => (pc = "failed" /\ NumPlayers = 0)

\* C12 amended: a requested player count outside [2,4] at setup is not a
\* failure: setup_players falls back to 2 players and the game starts; a
\* count within [2,4] is used as typed, so every game constructed has between
\* 2 and 4 players, all new.
C12_InvalidCountFallsBack ==
    pc # "setup" =>
        /\ pc = "top"
        /\ NumPlayers \in MinPlayers..PlayerLimit
        /\ (raw.kind = "int" /\ (raw.value < 2 \/ raw.value > 4)) => NumPlayers = 2
        /\ (raw.kind = "int" /\ raw.value >= 2 /\ raw.value <= 4)
              => NumPlayers = raw.value
        /\ DOMAIN players = 0..(NumPlayers - 1)
        /\ \A p \in DOMAIN players : players[p] = NewPlayer

\* 5 was typed and a game of 2 players was set up
C12_Witness ==
    /\ raw = [kind |-> "int", value |-> 5]
    /\ NumPlayers = 2
    /\ pc = "top"

\* C13: entering consumes the whole roll: when a player in base rolls a 6,
\* pos becomes exactly 0 (not 6) with finished false and the same player
\* rolls again; a following roll r in 1..5 moves that player to pos = r and
\* passes the turn to the next player ([6, 3] from base: pos 0, then pos 3).
C13_EnterConsumesRoll ==
    /\ []((Acted /\ old = 0 - 1 /\ roll = 6)
             => /\ players[current] = [pos |-> 0, finished |-> FALSE]
                /\ turn = current
                /\ pc = "top")
    /\ [][(Acted /\ old = 0 - 1 /\ roll = 6)
             => /\ pc' = "prompt"
                /\ turn' = turn
                /\ current' = current
                /\ old' = 0]_vars
    /\ []((Acted /\ old = 0 /\ roll \in 1..5)
             => /\ players[current] = [pos |-> roll, finished |-> FALSE]
                /\ turn = (current + 1) % NumPlayers
                /\ pc = "top")

\* the player who had just entered at 0 rolled a 3, stands at 3, and the
\* turn has passed on
C13_Witness ==
    /\ Acted
    /\ old = 0
    /\ roll = 3
    /\ players[current].pos = 3
    /\ turn # current
    /\ pc = "top"

\* C14: everyone_finished(players) is true iff every player in the list has
\* finished = true, for every assignment of finished flags to 2..4 players
\* (true when all are finished, false as soon as one is not).
C14_EveryoneFinished ==
    call.fn = "everyone_finished" =>
        /\ call.result
              <=> Cardinality({i \in DOMAIN players : players[i].finished}) = NumPlayers
        /\ (\E i \in DOMAIN players : ~players[i].finished) => ~call.result

\* everyone_finished returned true on two players that are both finished
C14_Witness ==
    /\ call.fn = "everyone_finished"
    /\ call.result
    /\ NumPlayers = 2
    /\ players[0].finished
    /\ players[1].finished

\* C15: when the player at the current turn index is finished, the game loop
\* skips that player without rolling the dice: the turn index advances to
\* (turn + 1) mod n and no player's pos or finished changes in that step.
C15_FinishedPlayerIsSkipped ==
    [][(pc = "top" /\ players[turn].finished)
          => /\ turn' = (turn + 1) % NumPlayers
             /\ players' = players
             /\ roll' = roll
             /\ winner_declared' = winner_declared
             /\ pc' = "top"]_vars

\* the last of three players was finished and was skipped before any roll:
\* the turn wrapped to player 0
C15_Witness ==
    /\ pc = "top"
    /\ NumPlayers = 3
    /\ current = 2
    /\ players[current].finished
    /\ turn = 0
    /\ roll = NoRoll

\* C16: every step of the game loop changes the pos and finished of at most
\* the player at the current turn index; the pos and finished of every other
\* player are unchanged by that step; the game starts with every player at
\* pos = -1, finished = false, and turn index 0.
C16_OnlyCurrentPlayerChanges ==
    /\ (turn = 0 /\ \A p \in DOMAIN players :
                        players[p].pos = 0 - 1 /\ players[p].finished = FALSE)
    /\ [][/\ DOMAIN players' = DOMAIN players
          /\ \A p \in DOMAIN players :
                p # turn => players'[p] = players[p]]_vars

\* a player on the track has just been advanced while another player is on
\* the track too
C16_Witness ==
    /\ Acted
    /\ old >= 0
    /\ players[current].pos > old
    /\ \E q \in DOMAIN players : q # current /\ players[q].pos > 0
    /\ pc = "top"

\* C17: whenever the final standings are produced, exactly one player has
\* status WINNER, that player is the one who made the last move, and every
\* other player has status BASE (pos = -1) or POS n with n in 0..56.
C17_FinalStandings ==
    pc = "done" =>
        LET st == final_standings(players)
        IN  /\ Cardinality({i \in DOMAIN st : st[i].tag = "WINNER"}) = 1
            /\ Acted
            /\ st[current].tag = "WINNER"
            /\ players[current].pos = old + roll
            /\ \A i \in DOMAIN st :
                  i # current =>
                     \/ st[i].tag = "BASE" /\ players[i].pos = 0 - 1
                     \/ st[i].tag = "POS" /\ st[i].n = players[i].pos
                                          /\ st[i].n \in 0..(TRACK_LEN - 1)

\* the standings list a winner, a player on the track and no one else
C17_Witness ==
    /\ pc = "done"
    /\ NumPlayers = 2
    /\ \E w \in DOMAIN players : \E q \in DOMAIN players :
          /\ final_standings(players)[w].tag = "WINNER"
          /\ final_standings(players)[q] = [tag |-> "POS", n |-> 56]

\* C18: in every reachable state of the game loop with 2 to 4 players, at
\* most one player is finished; while the game is still running no player is
\* finished, the skip-finished-player branch is never taken, and
\* everyone_finished is never true.
C18_AtMostOneFinished ==
    /\ Cardinality({p \in DOMAIN players : players[p].finished}) <= 1
    /\ pc # "done" => \A p \in DOMAIN players : ~players[p].finished
    /\ pc = "top" => ~players[turn].finished
    /\ ~everyone_finished(players)

\* the game has ended with one player finished and another one not
C18_Witness ==
    /\ pc = "done"
    /\ Cardinality({p \in DOMAIN players : players[p].finished}) = 1
    /\ \E q \in DOMAIN players : ~players[q].finished

\* C19: the game cannot get permanently stuck: in every reachable non-ended
\* state the current player has at least one roll in 1..6 that changes their
\* state (6 from base, 1 from any pos in 0..56), and if the user never quits
\* and the rolls recur fairly, the game eventually ends with a winner.
C19_GameEndsWithWinner ==
    /\ [](pc \in {"top", "prompt"} =>
             LET p == players[turn]
             IN  /\ ~p.finished
                 /\ p.pos \in (0 - 1)..(TRACK_LEN - 1)
                 /\ p.pos < 0 => decide_move(p, 6) # p
                 /\ p.pos >= 0 => decide_move(p, 1) # p)
    /\ <>(pc = "done" /\ winner_declared
             /\ \E p \in DOMAIN players : players[p].finished)

\* a player waiting on square 56, where only a 1 helps, has rolled the 1 and
\* won
C19_Witness ==
    /\ pc = "done"
    /\ winner_declared
    /\ old = TRACK_LEN - 1
    /\ roll = 1
    /\ players[current].finished

\* can_enter and move_possible are never both true for the same (pos, roll)
C20_NeverBoth ==
    \A r \in Rolls : \A p \in Positions : ~(can_enter(r, p) /\ move_possible(p, r))

\* C20: the game loop's guarded decision (apply_move called only when
\* can_enter holds for a base player or move_possible holds for an on-track
\* player) yields, for every unfinished player state and every roll in 1..6,
\* exactly the pos and finished that an unconditional apply_move yields; and
\* can_enter and move_possible are never both true for the same (pos, roll).
C20_GuardedEqualsUnconditional ==
    /\ C20_NeverBoth
    /\ pc = "prompt" =>
          \A r \in Rolls :
             decide_move(players[turn], r) = apply_move(players[turn], r)
    /\ (Acted /\ pc \in {"top", "done"}) =>
          players[current] = apply_move([pos |-> old, finished |-> oldFinished], roll)

\* the loop refused an overshooting 5 at square 54 without calling apply_move
C20_Witness ==
    /\ Acted
    /\ pc = "top"
    /\ ~oldFinished
    /\ old = 54
    /\ roll = 5
    /\ players[current].pos = 54

====
